---- MODULE Spec2Model ----
(***************************************************************************)
(* Q-and-A-Chatbot/app.py: a Streamlit script.  Streamlit runs the whole   *)
(* script once when the session opens and once more for every user event   *)
(* (a button click, a widget change, a chat submission); st.rerun() ends   *)
(* the current run and starts another.  One action below is one user       *)
(* event together with every script run it causes.                         *)
(*                                                                         *)
(* Data representation:                                                    *)
(*   - temperature is held in hundredths (0.7 is 70, the slider step 0.05  *)
(*     is 5), so that slider positions are integers;                       *)
(*   - an exception message is a sequence of text fragments, so that the   *)
(*     Python test `needle in err` is a search for a contiguous run;       *)
(*   - st.session_state is a function from the keys it holds.              *)
(***************************************************************************)
EXTENDS Integers, Sequences, FiniteSets, TLC

VARIABLES
    groq_api_key,    \* what st.secrets / os.getenv yields for GROQ_API_KEY
    session_state,   \* st.session_state: page, settings, messages
    widget,          \* values held by the setup page's three widgets
    rendered,        \* the page body the last script run served
    alert,           \* the st.error / st.success box the last run showed
    event,           \* the user event the last run processed
    exchange         \* the completion call made by the last run, if any

vars == <<groq_api_key, session_state, widget, rendered, alert, event, exchange>>

----------------------------------------------------------------------------
(* Bounds of the model *)

MaxMessages == 3

(* Inputs *)

NoneValue == "<None>"
KeyInputs == {NoneValue, "", "gsk_key"}
Questions == {"q1", "q2"}
Answers == {"a1", "a2"}

----------------------------------------------------------------------------
(* Program constants *)

GROQ_BASE_URL == "https://api.groq.com/openai/v1"

MODEL_OPTIONS ==
    << "llama-3.1-8b-instant", "llama-3.3-70b-versatile",
       "groq/compound-mini", "groq/compound" >>

\* The model line 26 says Groq removed.
RetiredModels == {"gemma2-9b-it"}

TemperatureMin == 0
TemperatureMax == 100
TemperatureStep == 5
MaxTokensMin == 64
MaxTokensMax == 2048
MaxTokensStep == 64

\* A default left at the model Groq removed.
DefaultSettings_Retired ==
    [model |-> "gemma2-9b-it", temperature |-> 70, max_tokens |-> 512]
DefaultSettings ==
    [model |-> "llama-3.1-8b-instant", temperature |-> 70, max_tokens |-> 512]

EmptySession == [k \in {} |-> ""]

----------------------------------------------------------------------------
(* Helpers *)

Range(seq) == {seq[i] : i \in 1..Len(seq)}

\* Python `needle in hay` on strings held as fragment sequences.
Contains(needle, hay) ==
    \E i \in 1..(Len(hay) - Len(needle) + 1) :
        SubSeq(hay, i, i + Len(needle) - 1) = needle

\* A test for None alone, which lets the empty string through.
Falsy_NoneOnly(v) == v = NoneValue
\* Python truthiness of the key: None and the empty string are falsy.
Falsy(v) == v \in {NoneValue, ""}

\* Positions a slider(min, max, value, step) can take.
SliderValues(min_value, max_value, step) ==
    {min_value + k * step : k \in 0..((max_value - min_value) \div step)}

\* The positions the user is taken to move the sliders to.
TemperaturePicks ==
    {v \in SliderValues(TemperatureMin, TemperatureMax, TemperatureStep) :
        v \in {TemperatureMin, TemperatureMax}}
MaxTokensPicks ==
    {v \in SliderValues(MaxTokensMin, MaxTokensMax, MaxTokensStep) :
        v \in {MaxTokensMin, MaxTokensMax}}

\* A user pick: at most one widget changes per event; "" and -1 are "untouched".
NoPick == [model |-> "", temperature |-> -1, max_tokens |-> -1]
Picks ==
    {[NoPick EXCEPT !.model = m] : m \in Range(MODEL_OPTIONS)}
    \cup {[NoPick EXCEPT !.temperature = t] : t \in TemperaturePicks}
    \cup {[NoPick EXCEPT !.max_tokens = n] : n \in MaxTokensPicks}

\* No widget of the setup page is on screen.
NoWidgets == [model |-> "", temperature |-> -1, max_tokens |-> -1]

----------------------------------------------------------------------------
(* Widgets.  A widget without a key keeps the value the user gave it for as *)
(* long as it stays on screen with the same arguments; a widget that was    *)
(* not on screen in the previous run starts from its default.  `state` is   *)
(* the value kept from the previous run, `pick` the user's change in this   *)
(* event; "" (selectbox) and -1 (slider) stand for "none".                  *)

\* MODEL_OPTIONS.index(stored) if stored in MODEL_OPTIONS else 0  (0-based)
selectbox_index_Last(options, stored) ==
    IF stored \in Range(options)
    THEN (CHOOSE i \in 1..Len(options) : options[i] = stored) - 1
    ELSE Len(options) - 1
selectbox_index(options, stored) ==
    IF stored \in Range(options)
    THEN (CHOOSE i \in 1..Len(options) :
            /\ options[i] = stored
            /\ \A j \in 1..(i - 1) : options[j] # stored) - 1
    ELSE 0

selectbox(options, index, state, pick) ==
    IF pick # "" THEN pick
    ELSE IF state # "" THEN state
    ELSE options[index + 1]

slider(min_value, max_value, value, step, state, pick) ==
    IF pick # -1 THEN pick
    ELSE IF state # -1 THEN state
    ELSE value

\* setup_page, lines 346-364: the three widgets read the stored settings as
\* their defaults and write nothing back.
setup_widgets(settings, state, pick) ==
    [ model |->
        selectbox(MODEL_OPTIONS, selectbox_index(MODEL_OPTIONS, settings.model),
                  state.model, pick.model),
      temperature |->
        slider(TemperatureMin, TemperatureMax, settings.temperature,
               TemperatureStep, state.temperature, pick.temperature),
      max_tokens |->
        slider(MaxTokensMin, MaxTokensMax, settings.max_tokens,
               MaxTokensStep, state.max_tokens, pick.max_tokens) ]

\* chat_page, lines 396-408: each sidebar widget's value is assigned straight
\* back to the setting it took its default from.  A value kept from the
\* previous run is the setting itself, so only the pick and the default count.
chat_sidebar(settings, pick) ==
    [ settings EXCEPT
        !.model =
            selectbox(MODEL_OPTIONS, selectbox_index(MODEL_OPTIONS, settings.model),
                      "", pick.model),
        !.temperature =
            slider(TemperatureMin, TemperatureMax, settings.temperature,
                   TemperatureStep, -1, pick.temperature),
        !.max_tokens =
            slider(MaxTokensMin, MaxTokensMax, settings.max_tokens,
                   MaxTokensStep, -1, pick.max_tokens) ]

\* st.session_state.settings.update({...}), lines 376-378 and 383-385.
\* float() of the float slider and int() of the int slider change nothing.
settings_update_KeepTokens(settings, w) ==
    [settings EXCEPT !.model = w.model, !.temperature = w.temperature]
settings_update(settings, w) ==
    [settings EXCEPT !.model = w.model,
                     !.temperature = w.temperature,
                     !.max_tokens = w.max_tokens]

----------------------------------------------------------------------------
(* Session state and routing *)

\* Lines 50-61: each key is set only when the session does not hold it yet.
init_session_state(s) ==
    [ page     |-> IF "page" \in DOMAIN s THEN s.page ELSE "landing",
      settings |-> IF "settings" \in DOMAIN s THEN s.settings ELSE DefaultSettings,
      messages |-> IF "messages" \in DOMAIN s THEN s.messages ELSE << >> ]

\* Lines 235-237; the st.rerun() is the router run the caller applies next.
go_Stay(s, page_name) == s
go_Reset(s, page_name) == [s EXCEPT !.page = page_name, !.messages = << >>]
go(s, page_name) == [s EXCEPT !.page = page_name]

\* Lines 467-472: which page function runs.
router(s) ==
    IF s.page = "landing" THEN "landing"
    ELSE IF s.page = "setup" THEN "setup"
    ELSE "chat"

\* A script run in which the user changed no widget and clicked nothing:
\* what it leaves in the session and in the setup page's widgets.
run_session(s) ==
    IF router(s) = "chat"
    THEN [s EXCEPT !.settings = chat_sidebar(s.settings, NoPick)]
    ELSE s
run_widgets(s, state) ==
    IF router(s) = "setup" THEN setup_widgets(s.settings, state, NoPick)
    ELSE NoWidgets

\* Where each navigation button goes (lines 289-296, 371-372, 382-386, 415-418).
NavTarget ==
    [ b \in {"Get Started", "Setup", "Chat", "Back", "Continue to Chat", "Home"} |->
        CASE b = "Get Started" -> "setup"
          [] b = "Setup" -> "setup"
          [] b = "Chat" -> "chat"
          [] b = "Back" -> "landing"
          [] b = "Continue to Chat" -> "chat"
          [] b = "Home" -> "landing" ]

----------------------------------------------------------------------------
(* The completion call *)

\* What chain.invoke can do: return text, or raise.  `retired` is the
\* provider's own reason for raising; `message` is str(e).
ProviderFailures ==
    { [retired |-> TRUE,
       message |-> <<"Error code: 400 - code: ", "model_", "decommissioned">>],
      [retired |-> TRUE,
       message |-> <<"The model has been ", "decommissioned",
                     " and is no longer supported.">>],
      [retired |-> FALSE, message |-> <<"Request timed out.">>],
      [retired |-> FALSE,
       message |-> <<"Error code: 401 - ", "Invalid API Key">>] }

Results ==
    {[ok |-> TRUE, answer |-> a, retired |-> FALSE, message |-> << >>] :
        a \in Answers}
    \cup {[ok |-> FALSE, answer |-> "", retired |-> f.retired,
           message |-> f.message] : f \in ProviderFailures}

\* generate_response, lines 243-255: the request built from the settings.
generate_response(api_key, question, cfg) ==
    [ api_key |-> api_key, base_url |-> GROQ_BASE_URL,
      model |-> cfg.model, temperature |-> cfg.temperature,
      max_tokens |-> cfg.max_tokens, question |-> question ]

NoExchange == [made |-> FALSE]

\* Lines 442-451: the user's message is appended before the call, the
\* assistant's only when the call returns.
chat_submit_EchoError(messages, user_text, result) ==
    Append(Append(messages, [role |-> "user", content |-> user_text]),
           [role |-> "assistant",
            content |-> IF result.ok THEN result.answer ELSE "error"])
chat_submit_Rollback(messages, user_text, result) ==
    IF result.ok
    THEN Append(Append(messages, [role |-> "user", content |-> user_text]),
                [role |-> "assistant", content |-> result.answer])
    ELSE messages
chat_submit_AnswerFirst(messages, user_text, result) ==
    IF result.ok
    THEN Append(Append(messages, [role |-> "assistant", content |-> result.answer]),
                [role |-> "user", content |-> user_text])
    ELSE Append(messages, [role |-> "user", content |-> user_text])
chat_submit(messages, user_text, result) ==
    LET asked == Append(messages, [role |-> "user", content |-> user_text])
    IN  IF result.ok
        THEN Append(asked, [role |-> "assistant", content |-> result.answer])
        ELSE asked

\* Line 456: "model_decommissioned" in err or "decommissioned" in err
is_decommissioned_CodeOnly(err) == Contains(<<"model_", "decommissioned">>, err)
is_decommissioned(err) ==
    \/ Contains(<<"model_", "decommissioned">>, err)
    \/ Contains(<<"decommissioned">>, err)

NoAlert == [kind |-> "none", text |-> << >>]
ConfigAlert ==
    [kind |-> "error",
     text |-> <<"GROQ_API_KEY not found. Add it in Streamlit Cloud -> Settings -> Secrets.">>]
SavedAlert == [kind |-> "success", text |-> <<"Saved">>]
RetiredAlert ==
    [kind |-> "error",
     text |-> <<"That model was retired by Groq. Pick a different model from the dropdown.">>]

\* Lines 452-459: the box shown when the call raised.
error_alert(err) ==
    IF is_decommissioned(err) THEN RetiredAlert
    ELSE [kind |-> "error", text |-> <<"Error: ">> \o err]

\* Line 411.
clear_chat_DropFirst(messages) ==
    IF messages = << >> THEN << >> ELSE Tail(messages)
clear_chat(messages) == << >>

----------------------------------------------------------------------------
(* State *)

page == session_state.page
settings == session_state.settings
messages == session_state.messages

Pages == {"landing", "setup", "chat"}

\* The script got past lines 17-20 and a page is on screen.
Serving == ~Falsy(groq_api_key) /\ rendered \in Pages

Init ==
    /\ groq_api_key \in KeyInputs
    /\ session_state = EmptySession
    /\ widget = NoWidgets
    /\ rendered = "unstarted"
    /\ alert = NoAlert
    /\ event = "none"
    /\ exchange = NoExchange

----------------------------------------------------------------------------
(* Opening the session: the first script run *)

\* Lines 17-20: st.error and st.stop() before anything else runs.
MissingKeyStop ==
    /\ rendered = "unstarted"
    /\ Falsy(groq_api_key)
    /\ rendered' = "none"
    /\ alert' = ConfigAlert
    /\ event' = "open"
    /\ UNCHANGED <<groq_api_key, session_state, widget, exchange>>

\* Lines 50-61 and the router: a fresh session lands on the landing page.
FirstRun ==
    /\ rendered = "unstarted"
    /\ ~Falsy(groq_api_key)
    /\ LET s1 == init_session_state(session_state)
       IN  /\ session_state' = run_session(s1)
           /\ widget' = run_widgets(s1, NoWidgets)
           /\ rendered' = router(s1)
    /\ alert' = NoAlert
    /\ event' = "open"
    /\ UNCHANGED <<groq_api_key, exchange>>

----------------------------------------------------------------------------
(* landing_page, lines 261-323 *)

\* A button of the landing page that calls go(target): the run ends at
\* st.rerun() and the next run renders the target page.
LandingClick(button) ==
    /\ Serving
    /\ router(session_state) = "landing"
    /\ LET s1 == go(session_state, NavTarget[button])
       IN  /\ session_state' = run_session(s1)
           /\ widget' = run_widgets(s1, NoWidgets)
           /\ rendered' = router(s1)
    /\ alert' = NoAlert
    /\ event' = button
    /\ exchange' = NoExchange
    /\ UNCHANGED groq_api_key

LandingGetStarted == LandingClick("Get Started")
LandingSetup == LandingClick("Setup")
LandingChat == LandingClick("Chat")

----------------------------------------------------------------------------
(* setup_page, lines 326-386 *)

\* The user changes one widget; the run redraws the page and stores nothing.
SetupPick ==
    /\ Serving
    /\ router(session_state) = "setup"
    /\ \E p \in Picks :
        /\ widget' = setup_widgets(settings, widget, p)
        /\ widget' # widget
    /\ rendered' = "setup"
    /\ alert' = NoAlert
    /\ event' = "pick"
    /\ exchange' = NoExchange
    /\ UNCHANGED <<groq_api_key, session_state>>

\* Lines 371-372.
SetupBack ==
    /\ Serving
    /\ router(session_state) = "setup"
    /\ LET s1 == go(session_state, NavTarget["Back"])
       IN  /\ session_state' = run_session(s1)
           /\ widget' = run_widgets(s1, NoWidgets)
           /\ rendered' = router(s1)
    /\ alert' = NoAlert
    /\ event' = "Back"
    /\ exchange' = NoExchange
    /\ UNCHANGED groq_api_key

\* Lines 375-379: the widgets' values are stored; the page stays.
SetupSave ==
    /\ Serving
    /\ router(session_state) = "setup"
    /\ LET w == setup_widgets(settings, widget, NoPick)
       IN  /\ session_state' =
                [session_state EXCEPT !.settings = settings_update(@, w)]
           /\ widget' = w
    /\ rendered' = "setup"
    /\ alert' = SavedAlert
    /\ event' = "Save Settings"
    /\ exchange' = NoExchange
    /\ UNCHANGED groq_api_key

\* Lines 382-386: the widgets' values are stored, then go("chat").
SetupContinue ==
    /\ Serving
    /\ router(session_state) = "setup"
    /\ LET w  == setup_widgets(settings, widget, NoPick)
           s1 == [session_state EXCEPT !.settings = settings_update(@, w)]
           s2 == go(s1, NavTarget["Continue to Chat"])
       IN  /\ session_state' = run_session(s2)
           /\ widget' = run_widgets(s2, NoWidgets)
           /\ rendered' = router(s2)
    /\ alert' = NoAlert
    /\ event' = "Continue to Chat"
    /\ exchange' = NoExchange
    /\ UNCHANGED groq_api_key

----------------------------------------------------------------------------
(* chat_page, lines 389-461 *)

\* The user changes one sidebar widget; lines 396-408 store it at once.
ChatPick ==
    /\ Serving
    /\ router(session_state) = "chat"
    /\ \E p \in Picks :
        /\ session_state' =
             [session_state EXCEPT !.settings = chat_sidebar(@, p)]
        /\ session_state' # session_state
    /\ rendered' = "chat"
    /\ alert' = NoAlert
    /\ event' = "pick"
    /\ exchange' = NoExchange
    /\ UNCHANGED <<groq_api_key, widget>>

\* Lines 410-412: the transcript is emptied and the script reruns.
ChatClear ==
    /\ Serving
    /\ router(session_state) = "chat"
    /\ LET s1 == run_session(session_state)
           s2 == [s1 EXCEPT !.messages = clear_chat(@)]
       IN  /\ session_state' = run_session(s2)
           /\ widget' = run_widgets(s2, NoWidgets)
           /\ rendered' = router(s2)
    /\ alert' = NoAlert
    /\ event' = "Clear chat"
    /\ exchange' = NoExchange
    /\ UNCHANGED groq_api_key

\* A sidebar button that calls go(target), lines 415-418.
ChatClick(button) ==
    /\ Serving
    /\ router(session_state) = "chat"
    /\ LET s1 == run_session(session_state)
           s2 == go(s1, NavTarget[button])
       IN  /\ session_state' = run_session(s2)
           /\ widget' = run_widgets(s2, NoWidgets)
           /\ rendered' = router(s2)
    /\ alert' = NoAlert
    /\ event' = button
    /\ exchange' = NoExchange
    /\ UNCHANGED groq_api_key

ChatHome == ChatClick("Home")
ChatSetup == ChatClick("Setup")

\* Lines 439-459: a question is submitted and the completion call returns
\* text or raises.  The transcript is kept within MaxMessages.
ChatSubmit ==
    /\ Serving
    /\ router(session_state) = "chat"
    /\ \E user_text \in Questions, result \in Results :
        LET s1 == run_session(session_state)
        IN  /\ Len(s1.messages) + (IF result.ok THEN 2 ELSE 1) <= MaxMessages
            /\ session_state' =
                 [s1 EXCEPT !.messages = chat_submit(@, user_text, result)]
            /\ exchange' =
                 [ made |-> TRUE,
                   question |-> user_text,
                   request |-> generate_response(groq_api_key, user_text, s1.settings),
                   result |-> result ]
            /\ alert' = IF result.ok THEN NoAlert ELSE error_alert(result.message)
    /\ widget' = NoWidgets
    /\ rendered' = "chat"
    /\ event' = "submit"
    /\ UNCHANGED groq_api_key

----------------------------------------------------------------------------

Next ==
    \/ MissingKeyStop
    \/ FirstRun
    \/ LandingGetStarted
    \/ LandingSetup
    \/ LandingChat
    \/ SetupPick
    \/ SetupBack
    \/ SetupSave
    \/ SetupContinue
    \/ ChatPick
    \/ ChatClear
    \/ ChatHome
    \/ ChatSetup
    \/ ChatSubmit

Spec == Init /\ [][Next]_vars

----------------------------------------------------------------------------
(* Properties *)

NavButtons == {"Get Started", "Setup", "Chat", "Back", "Continue to Chat", "Home"}
SaveButtons == {"Save Settings", "Continue to Chat"}

HasSession == DOMAIN session_state = {"page", "settings", "messages"}

UserMessage(text) == [role |-> "user", content |-> text]
AssistantMessage(text) == [role |-> "assistant", content |-> text]

FailedSubmit == event = "submit" /\ ~exchange.result.ok
RetiredSubmit == FailedSubmit /\ exchange.result.retired

\* The transition table as the specification states it: <<from, button, to>>.
TransitionTable ==
    { <<"landing", "Get Started", "setup">>,
      <<"landing", "Setup", "setup">>,
      <<"landing", "Chat", "chat">>,
      <<"setup", "Back", "landing">>,
      <<"setup", "Continue to Chat", "chat">>,
      <<"chat", "Home", "landing">>,
      <<"chat", "Setup", "setup">> }

\* C1: the session opens on the landing page; every navigation button takes
\* the session from the page it is on to the one page the transition table
\* gives for it, and that page is the one rendered; every other event leaves
\* the page where it is; the page is always landing, setup or chat.
C1_Navigation ==
    [][ /\ HasSession' => page' \in Pages
        /\ (~HasSession /\ HasSession') => page' = "landing"
        /\ event' \in NavButtons =>
             /\ <<page, event', page'>> \in TransitionTable
             /\ \A t \in TransitionTable :
                  (t[1] = page /\ t[2] = event') => t[3] = page'
             /\ rendered' = page'
        /\ (HasSession /\ event' \notin NavButtons) => page' = page
      ]_vars

\* A navigation sequence that ended on the chat page by way of the setup page.
C1_Witness ==
    /\ HasSession
    /\ event = "Continue to Chat"
    /\ page = "chat"
    /\ rendered = "chat"

\* C2: a submission whose completion call returns text A for question Q
\* is made from the chat page and appends the user's message Q and then the
\* assistant's message A to the transcript, and nothing else changes in it.
C2_SubmitAppendsPair ==
    [][ (event' = "submit" /\ exchange'.result.ok) =>
          /\ page = "chat"
          /\ messages' = messages \o << UserMessage(exchange'.question),
                                        AssistantMessage(exchange'.result.answer) >>
      ]_vars

\* A successful exchange appended after an earlier message.
C2_Witness ==
    /\ event = "submit"
    /\ exchange.result.ok
    /\ Len(messages) = 3
    /\ messages[3] = AssistantMessage(exchange.result.answer)

\* C3: a submission whose completion call raises appends the user's message
\* alone, shows an error box, and leaves the chat page rendered and serving.
C3_FailureKeepsUserMessage ==
    [][ (event' = "submit" /\ ~exchange'.result.ok) =>
          /\ messages' = Append(messages, UserMessage(exchange'.question))
          /\ alert'.kind = "error"
          /\ alert'.text # << >>
          /\ page' = "chat"
          /\ rendered' = "chat"
          /\ Serving'
      ]_vars

\* A failed submission (not a retired model) after a completed exchange.
C3_Witness ==
    /\ FailedSubmit
    /\ ~exchange.result.retired
    /\ Len(messages) = 3
    /\ messages[2].role = "assistant"
    /\ messages[3].role = "user"

\* C4: Clear chat is clicked only on the chat page, empties the transcript
\* whatever it held, and leaves the chat page current.
C4_ClearChat ==
    [][ event' = "Clear chat" =>
          /\ page = "chat"
          /\ messages' = << >>
          /\ page' = "chat"
      ]_vars

\* The chat page right after a clear.
C4_Witness ==
    /\ event = "Clear chat"
    /\ page = "chat"
    /\ messages = << >>

\* C5: the stored model is always one of MODEL_OPTIONS; and a selector
\* given a stored model outside the list shows, and on the chat page stores,
\* the first entry of the list.
C5_ModelInOptions ==
    /\ HasSession => settings.model \in Range(MODEL_OPTIONS)
    /\ \A m \in RetiredModels :
         LET stale == [DefaultSettings EXCEPT !.model = m]
         IN  /\ m \notin Range(MODEL_OPTIONS)
             /\ setup_widgets(stale, NoWidgets, NoPick).model = MODEL_OPTIONS[1]
             /\ chat_sidebar(stale, NoPick).model = MODEL_OPTIONS[1]

\* A model other than the default, stored from the setup page and read on
\* the chat page.
C5_Witness ==
    /\ HasSession
    /\ page = "chat"
    /\ settings.model = MODEL_OPTIONS[4]
    /\ event = "Continue to Chat"

\* C6: Save Settings and Continue to Chat store exactly the three values
\* the setup page's widgets hold, each within its documented bounds; the
\* stored values are what a submission's request carries, and nothing but
\* a save or a sidebar change on the chat page alters them.
C6_SaveSettings ==
    [][ /\ event' \in SaveButtons =>
             /\ page = "setup"
             /\ widget.model \in Range(MODEL_OPTIONS)
             /\ widget.temperature \in TemperatureMin..TemperatureMax
             /\ widget.max_tokens \in MaxTokensMin..MaxTokensMax
             /\ settings' = widget
        /\ event' = "submit" =>
             /\ exchange'.request.model = settings.model
             /\ exchange'.request.temperature = settings.temperature
             /\ exchange'.request.max_tokens = settings.max_tokens
        /\ ( /\ HasSession
             /\ event' \notin SaveButtons
             /\ ~(event' = "pick" /\ page = "chat") ) => settings' = settings
      ]_vars

\* Three values, none of them the default, saved on the way to the chat page.
C6_Witness ==
    /\ event = "Continue to Chat"
    /\ settings = [model |-> MODEL_OPTIONS[3], temperature |-> TemperatureMin,
                   max_tokens |-> MaxTokensMax]

\* C7: with the credential missing (None or empty) no page is rendered, the
\* session holds nothing, no user event is processed, no completion call is
\* made, and once the script has run the configuration error is on screen.
C7_MissingCredential ==
    groq_api_key \in {NoneValue, ""} =>
        /\ rendered \in {"unstarted", "none"}
        /\ DOMAIN session_state = {}
        /\ event \in {"none", "open"}
        /\ exchange = NoExchange
        /\ rendered = "none" => alert = ConfigAlert

\* The script has run with an empty credential and stopped.
C7_Witness ==
    /\ groq_api_key = ""
    /\ rendered = "none"
    /\ alert = ConfigAlert

\* C8: no navigation button changes the transcript.
C8_NavigationKeepsTranscript ==
    [][ event' \in NavButtons => messages' = messages ]_vars

\* The setup page entered from the chat page with a transcript in place.
C8_Witness ==
    /\ event = "Setup"
    /\ page = "setup"
    /\ Len(messages) >= 2

C10_OddAfterRetired ==
    RetiredSubmit => Len(messages) % 2 = 1

\* C10 as amended: a submission that fails because the model was retired
\* makes the transcript exactly one message longer, the user's, and shows
\* the hint; so its length is odd after it exactly when it was even before.
C10_OneLongerAfterRetired ==
    [][ (event' = "submit" /\ ~exchange'.result.ok /\ exchange'.result.retired) =>
          /\ Len(messages') = Len(messages) + 1
          /\ messages'[Len(messages')] = UserMessage(exchange'.question)
          /\ (Len(messages') % 2 = 1) <=> (Len(messages) % 2 = 0)
          /\ alert' = RetiredAlert
      ]_vars

\* A retired-model failure after a completed exchange: length three.
C10_Witness ==
    /\ RetiredSubmit
    /\ Len(messages) = 3
    /\ messages[2].role = "assistant"
    /\ alert = RetiredAlert

====
